---- MODULE Spec2Model ----
(***************************************************************************)
(* Session state machine of the rock-paper-scissors backend:               *)
(* game/views.py (MoveAPIView, EndSessionAPIView) over the tables of       *)
(* game/models.py (GameSession, ChainEntry, Score).                        *)
(*                                                                         *)
(* Every request runs in its own worker.  A handler is cut into steps     *)
(* where it can wait: select_for_update() waits for the row lock (the step *)
(* is enabled when the row is free) and the call of the judge suspends the *)
(* handler.  `with transaction.atomic()` is the span from the first        *)
(* statement to Commit, and the row lock is held until then, so the        *)
(* statements between two waits touch only rows no other worker can read.  *)
(* Rows inserted by an open transaction carry the worker's number in `tx`  *)
(* and are invisible to the other workers (READ COMMITTED); Commit clears  *)
(* it.  The column updated_at is not modelled: nothing reads it.           *)
(*                                                                         *)
(* The decision client, game/ai_client.py (get_ai_decision and the circuit *)
(* breaker), is a second state machine over its own variables: the views   *)
(* see it as the values it returns, the client specification has several   *)
(* calls in flight and leaves the tables alone.                            *)
(***************************************************************************)
EXTENDS Integers, Sequences, FiniteSets, TLC

VARIABLES
    sessions,   \* GameSession table: sequence of rows, the index is the id
    entries,    \* ChainEntry table: set of rows [session, position, value]
    scores,     \* Score table: sequence of rows [user, session, points, tx]
    lock,       \* session id -> worker holding the row lock (0: nobody)
    now,        \* next reading of timezone.now()
    pc,         \* worker -> position in its handler
    local,      \* worker -> local variables of the running handler
    resp,       \* worker -> the Response it has built
    delivered,  \* session id -> final scores that responses have reported
    wins,       \* session id -> winning verdicts applied to the session
    failure_count,  \* ai_client._failure_count
    last_failure,   \* ai_client._last_failure_monotonic
    mono,           \* the reading of time.monotonic()
    base_url,       \* settings.AI_SERVICE_URL
    call,           \* caller -> its get_ai_decision call
    model_text,     \* the judge's text handed to the normalizer
    decision,       \* what the normalizer made of it
    client,         \* ai_client._client (0: None)
    made,           \* the httpx.AsyncClient objects constructed so far
    client_lock,    \* ai_client._client_lock
    getter          \* caller -> its get_shared_client call

vars == <<sessions, entries, scores, lock, now, pc, local, resp, delivered, wins>>
cvars == <<failure_count, last_failure, mono, base_url, call>>
nvars == <<model_text, decision>>
gvars == <<client, made, client_lock, getter>>
allvars == <<vars, cvars, nvars, gvars>>

-----------------------------------------------------------------------------
(* Bounds of the model *)

MaxSessions == 1        \* GameSession rows ever created
MaxChain == 4           \* ChainEntry rows per session
MaxTicks == 2           \* advances of the monotonic clock
MaxRows == 3            \* Score rows a leaderboard read starts from
MaxPoints == 3          \* points of such a row

Reqs == {1, 2}          \* concurrent request workers
Users == {"alice", "bob"}
SessionIds == 1..MaxSessions
PairIds == {1, 2}                \* the ids of the specification of two sessions
UnknownId == MaxSessions + 2     \* a well-formed UUID that names no row

-----------------------------------------------------------------------------
(* Program constants and request inputs *)

NULL == 0                        \* ended_at IS NULL; clock readings are >= 1
MaxMoveLen == 64                 \* MoveSerializer.move max_length
CanonicalMoves == {"rock", "paper", "scissors"}
\* A move of the request body: a string that is none of the three tokens (the
\* views treat every non-blank string of at most 64 characters alike), and a
\* blank one
MoveInputs == {"banana", ""}

\* The session_id of a /play body: MALFORMED is text that is no UUID, 0 is
\* absent or null, k > 0 is the UUID of row k (UnknownId: of no row).
MALFORMED == 0 - 1
PlaySessionIdInputs == {MALFORMED, 0, UnknownId} \cup DOMAIN sessions

\* The session_id argument of EndSessionAPIView.post: a str, or the uuid.UUID
\* object that the route's <uuid:session_id> converter passes.
EndSessionIdInputs ==
    {<<"str", k>> : k \in {MALFORMED, UnknownId} \cup DOMAIN sessions}
        \cup {<<"UUID", k>> : k \in {UnknownId} \cup DOMAIN sessions}

-----------------------------------------------------------------------------
(* Records *)

NoSession == [id |-> 0, active |-> FALSE, ended_at |-> NULL]
NoAI == [result |-> FALSE, message |-> ""]

\* view: the handler that runs ("play", "end", "top"), or "end_session" for a
\* caller of GameSession.end_session; session_id: the id its request names
\* (0: none); limit: the limit its query string names (0: none);
\* record_score: the argument of end_session
NoLocal ==
    [view |-> "", user |-> "", session_id |-> 0, move |-> "",
     session |-> NoSession, last_pos |-> 0, next_pos |-> 0,
     ai_response |-> NoAI, limit |-> 0, record_score |-> TRUE]

PlayLocal(u, m, sid) ==
    [NoLocal EXCEPT !.view = "play", !.user = u, !.move = m, !.session_id = sid]

EndLocal(u, sid) ==
    [NoLocal EXCEPT !.view = "end", !.user = u, !.session_id = sid]

NoResp ==
    [status |-> 0, body |-> "none", error |-> "", accepted |-> FALSE,
     quote |-> "", score |-> 0, session_id |-> 0, best_score |-> 0,
     final_score |-> 0, message |-> "", board |-> <<>>]

ErrorResponse(status, error) ==
    [NoResp EXCEPT !.status = status, !.body = "error", !.error = error]

AcceptedResponse(quote, score, sid) ==
    [NoResp EXCEPT !.status = 200, !.body = "move", !.accepted = TRUE,
                   !.quote = quote, !.score = score, !.session_id = sid]

LostResponse(quote, score, sid, best) ==
    [NoResp EXCEPT !.status = 200, !.body = "move", !.accepted = FALSE,
                   !.quote = quote, !.score = score, !.session_id = sid,
                   !.best_score = best]

EndResponse(sid, final, best, message) ==
    [NoResp EXCEPT !.status = 200, !.body = "end", !.session_id = sid,
                   !.final_score = final, !.best_score = best,
                   !.message = message]

-----------------------------------------------------------------------------
(* The decision client as the views see it: the values get_ai_decision     *)
(* returns, and the exception the view catches.                            *)

CircuitOpenMsg == "AI service temporarily unavailable"
NotConfiguredMsg == "AI service not configured"
HttpErrorMsg == "AI HTTP error"
InvalidResponseMsg == "Invalid model response"
UnreachableMsg == "AI service unreachable"

AIErrorMessages ==
    {CircuitOpenMsg, NotConfiguredMsg, HttpErrorMsg, InvalidResponseMsg,
     UnreachableMsg}

\* A verdict of the judge: result is the parsed boolean.
AIVerdicts == {[result |-> b, message |-> "explanation"] : b \in BOOLEAN}

\* An error of the client is reported as result False with an error message.
AIErrors == {[result |-> FALSE, message |-> m] : m \in AIErrorMessages}

AIResults == AIVerdicts \cup AIErrors

IsAIError(ai) == ai.message \in AIErrorMessages

-----------------------------------------------------------------------------
(* Queries *)

Max(S) == CHOOSE x \in S : \A y \in S : y <= x

ChainOf(s) == {e \in entries : e.session = s}

\* ChainEntry.objects.filter(session=session).count()
ChainCount(s) == Cardinality(ChainOf(s))

\* .aggregate(Max("position"))["position__max"] or 0
LastPos(s) ==
    IF ChainOf(s) = {} THEN 0 ELSE Max({e.position : e \in ChainOf(s)})

\* Rows of the Score table `rows` that worker r can read: committed ones and
\* its own.
VisibleScores(rows, r) == {i \in DOMAIN rows : rows[i].tx \in {0, r}}

\* (variant: the aggregate is taken before the request's own Score is stored)
BestScoreBeforeOwn(rows, r, u) ==
    LET pts == {rows[i].points :
                    i \in {j \in DOMAIN rows : rows[j].tx = 0 /\ rows[j].user = u}}
    IN  IF pts = {} THEN 0 ELSE Max(pts)

\* Score.objects.filter(user=...).aggregate(Max("points"))["points__max"] or 0
BestScore(rows, r, u) ==
    LET pts == {rows[i].points :
                    i \in {j \in VisibleScores(rows, r) : rows[j].user = u}}
    IN  IF pts = {} THEN 0 ELSE Max(pts)

\* Score.objects.filter(user=..., session=...).aggregate(Max("points"))["points__max"]
\* (None is rendered as 0: `stored["points__max"] or final_score` treats both alike)
StoredPoints(rows, r, u, s) ==
    LET pts == {rows[i].points :
                    i \in {j \in VisibleScores(rows, r) :
                              rows[j].user = u /\ rows[j].session = s}}
    IN  IF pts = {} THEN 0 ELSE Max(pts)

\* GameSession.objects...get(id=session_id, user=request.user) finds a row
SessionFound(r, sid, u) ==
    /\ sid \in DOMAIN sessions
    /\ sessions[sid].user = u
    /\ sessions[sid].tx \in {0, r}

\* (variant: one lock for the whole table)
LockedGlobally(sid, r) == \E t \in DOMAIN lock : lock[t] # 0 /\ lock[t] # r

\* (variant: .get() without select_for_update() never waits)
NeverLocked(sid, r) == FALSE

\* select_for_update(): the row is locked by another open transaction
LockedByOther(sid, r) == lock[sid] # 0 /\ lock[sid] # r

Snapshot(sid) ==
    [id |-> sid, active |-> sessions[sid].active,
     ended_at |-> sessions[sid].ended_at]

-----------------------------------------------------------------------------
(* Input validation *)

\* serializers.UUIDField(required=False, allow_null=True)
UUIDFieldValid(raw) == raw # MALFORMED

\* serializers.CharField(max_length=64): a non-blank string of at most 64
MoveFieldValid(m) == Len(m) >= 1 /\ Len(m) <= MaxMoveLen

MoveSerializerValid(m, raw) == MoveFieldValid(m) /\ UUIDFieldValid(raw)

\* uuid.UUID(session_id): parses a str; a uuid.UUID argument raises
\* (AttributeError in UUID.__init__), which the view reports as invalid
UUIDParses(arg) == arg[1] = "str" /\ arg[2] # MALFORMED

-----------------------------------------------------------------------------
(* The decision client: settings, the state of a call, what an attempt can *)
(* meet                                                                    *)

Calls == {1, 2}                  \* callers of get_ai_decision at one time

CIRCUIT_THRESHOLD == 6           \* _CIRCUIT_THRESHOLD
CIRCUIT_COOLDOWN == 30           \* _CIRCUIT_COOLDOWN, seconds
AI_RETRY_ATTEMPTS == 3           \* _AI_RETRY_ATTEMPTS

JudgeUrl == "http://localhost:11434"
BaseUrls == {"", JudgeUrl}       \* AI_SERVICE_URL unset, or set

\* The clock advances by a little under or over half a cooldown, so that a
\* reading can fall exactly on the cooldown and just past it.
TickSteps == {CIRCUIT_COOLDOWN \div 2, CIRCUIT_COOLDOWN \div 2 + 1}
MaxClock == MaxTicks * (CIRCUIT_COOLDOWN \div 2 + 1)

\* float("inf"): a delay asyncio.sleep() never returns from
INF == 0 - 1

\* An int of more than 308 digits: `wait + random.uniform(0, 0.5)` raises
\* OverflowError (int too large to convert to float)
HUGE == 0 - 3

\* pc: "idle", "post" (awaiting client.post), "sleep" (awaiting
\* asyncio.sleep(wait)), "returned", "raised" (an exception left the call);
\* attempt: the loop variable; posts: the client.post calls made; wait: the
\* delay in milliseconds, jitter included; status: the status code that the
\* returned message "AI HTTP error: <status>" names
NoCall ==
    [pc |-> "idle", attempt |-> 0, posts |-> 0, wait |-> 0, result |-> NoAI,
     status |-> 0]

\* What one `await client.post(...)` with raise_for_status() and the parsing
\* of the body can meet: a response (status, Retry-After header, and for a 2xx
\* what the body normalizes to), or an exception.
\* "1e400" stands for a 1 followed by 400 zeros
RetryAfterInputs == {"", "2", "soon", "inf", "1e400"}

\* The body of a 2xx response.  wrapper "object": JSON of an object whose
\* "response" key holds text; "no text": an object with none of the keys
\* that carry model text; "text not a string": {"response": [{"text": 5}]};
\* "not an object": JSON of a list, a string, a number or null; "not json":
\* text that is no JSON at all
NoBody == [wrapper |-> "", text |-> <<>>]
JudgeTexts == {<<"true", " ", "-", " ", "paper">>, <<"no">>, <<"paper">>}
Bodies ==
    {[wrapper |-> "object", text |-> t] : t \in JudgeTexts}
    \cup {[wrapper |-> w, text |-> <<>>] :
            w \in {"no text", "text not a string", "not an object"}}
    \cup {[wrapper |-> "not json", text |-> <<"paper">>]}

Http2xx ==
    {[kind |-> "response", status |-> 200, retry_after |-> "", body |-> b] :
        b \in Bodies}

HttpErrors ==
    {[kind |-> "response", status |-> 429, retry_after |-> h, body |-> NoBody] :
        h \in RetryAfterInputs}
    \cup {[kind |-> "response", status |-> st, retry_after |-> "", body |-> NoBody] :
            st \in {400, 404, 503}}

Exceptions ==
    {[kind |-> k, status |-> 0, retry_after |-> "", body |-> NoBody] :
        k \in {"RequestError", "Exception"}}

AttemptOutcomes == Http2xx \cup HttpErrors \cup Exceptions

-----------------------------------------------------------------------------
\* The empty tables, no request in hand; ids: the session ids the model admits
TablesInit(ids) ==
    /\ sessions = <<>>
    /\ entries = {}
    /\ scores = <<>>
    /\ lock = [s \in ids |-> 0]
    /\ now = 1
    /\ pc = [r \in Reqs |-> "idle"]
    /\ local = [r \in Reqs |-> NoLocal]
    /\ resp = [r \in Reqs |-> NoResp]
    /\ delivered = [s \in ids |-> {}]
    /\ wins = [s \in ids |-> 0]

\* Callers of get_shared_client and the event loops they run in: the views
\* enter the client through async_to_sync, one event loop per request thread;
\* coroutines of one loop share it
Getters == {1, 2, 3}
Loops == {1, 2}
None == 0

\* pc: "idle"; "check", "acquire", "locked", "release", "return" (running);
\* "waiting" (suspended in `await fut` of Lock.acquire), "woken" (its future
\* has a result), "lost" (the result was set from another thread and its loop
\* never learns of it), "raised" (RuntimeError left the call), "done";
\* loop: the running event loop; got: the returned client
NoGetter == [pc |-> "idle", loop |-> None, got |-> None]

\* _client_lock = asyncio.Lock(): _locked, _loop (bound at the first
\* contended acquire), _waiters (callers whose future is in the deque)
NewLock == [locked |-> FALSE, loop |-> None, waiters |-> <<>>]

\* _client = None, _client_lock = asyncio.Lock()
GetterIdle ==
    /\ client = None
    /\ made = {}
    /\ client_lock = NewLock
    /\ getter = [g \in Getters |-> NoGetter]

\* The module globals of ai_client.py after import, no call in flight
ClientIdle ==
    /\ failure_count = 0
    /\ last_failure = 0
    /\ mono = 0
    /\ call = [c \in Calls |-> NoCall]
    /\ GetterIdle

\* decision before the normalizer has run
NoDecision == [via |-> "", result |-> FALSE, message |-> <<>>]

\* No text in the normalizer's hands
NormIdle ==
    /\ model_text = <<>>
    /\ decision = NoDecision

Init ==
    /\ TablesInit(SessionIds)
    /\ ClientIdle
    /\ NormIdle
    /\ base_url = JudgeUrl

\* Workers whose /play request holds session s and waits for the judge
PendingAppends(s) == {q \in Reqs : pc[q] = "m_ai" /\ local[q].session.id = s}

-----------------------------------------------------------------------------
(* Statements shared by the two handlers *)

\* (variant: the chain of a new session starts at position 0)
SeedEntryAtZero(sid) == [session |-> sid, position |-> 0, value |-> "rock"]

\* ChainEntry.objects.create(session=session, position=1, value="rock")
SeedEntry(sid) == [session |-> sid, position |-> 1, value |-> "rock"]

\* (variant: a position is skipped)
NextPosSkips(last_pos) == last_pos + 2

\* next_pos = last_pos + 1
NextPos(last_pos) == last_pos + 1

\* (variant: the seeded entry is not counted)
CurrentScoreWithoutSeed(rows, sid) ==
    Cardinality({e \in rows : e.session = sid}) - 1

\* current_score = ChainEntry.objects.filter(session=session).count()
CurrentScore(rows, sid) == Cardinality({e \in rows : e.session = sid})

\* (variant: "chain length - 1 if last move causes failure")
FinalScoreBeforeLoss(current_score) == current_score - 1

\* final_score = current_score (the chain length, losing move included)
FinalScore(current_score) == current_score

\* (variant: save(update_fields=["active", "updated_at"]))
EndedRowActiveOnly(row, t) == [row EXCEPT !.active = FALSE]

\* session.active = False; session.ended_at = timezone.now();
\* session.save(update_fields=["active", "ended_at", "updated_at"])
EndedRow(row, t) == [row EXCEPT !.active = FALSE, !.ended_at = t]

\* (variant: the snapshot stores the chain length before the move)
ScoreRowBeforeMove(u, sid, points, r) ==
    [user |-> u, session |-> sid, points |-> points - 1, tx |-> r]

\* Score.objects.create(user=request.user, session=session, points=final_score)
ScoreRow(u, sid, points, r) ==
    [user |-> u, session |-> sid, points |-> points, tx |-> r]

\* (variant: the handler finalizes without looking at session.active)
EndFinalizesAlways(session) == TRUE

\* `if session.active:` of EndSessionAPIView.post
EndFinalizes(session) == session.active

\* (variant: the check of session.active is missing)
MoveRejectsEndedNever(session) == FALSE

\* `if not session.active:` of MoveAPIView.post
MoveRejectsEnded(session) == ~session.active

\* `if result :` of MoveAPIView.post
MoveAccepted(ai) == ai.result

-----------------------------------------------------------------------------
(* MoveAPIView.post                                                        *)

\* serializer.is_valid(raise_exception=True) fails: 400, nothing else runs
MoveRejected(r) ==
    /\ pc[r] = "idle"
    /\ \E u \in Users, m \in MoveInputs, raw \in PlaySessionIdInputs :
        /\ ~MoveSerializerValid(m, raw)
        /\ local' = [local EXCEPT ![r] = [NoLocal EXCEPT !.view = "play", !.move = m]]
    /\ resp' = [resp EXCEPT ![r] = ErrorResponse(400, "validation error")]
    /\ pc' = [pc EXCEPT ![r] = "respond"]
    /\ UNCHANGED <<sessions, entries, scores, lock, now, delivered, wins, cvars, nvars, gvars>>

\* The reads that follow the session's lookup or creation:
\* last_pos = ...aggregate(Max("position"))["position__max"] or 0;
\* next_pos = last_pos + 1; current_chain = list(...)
ReadChain(loc, rows, sid) ==
    LET chain == {e \in rows : e.session = sid}
        last == IF chain = {} THEN 0 ELSE Max({e.position : e \in chain})
    IN  [loc EXCEPT !.last_pos = last, !.next_pos = NextPos(last)]

\* `if session_id:` session = GameSession.objects.select_for_update().get(
\* id=session_id, user=request.user); `if not session.active`; then the reads
\* of the chain, up to the call of the judge
MoveOnSessionRequest(r, u, m, sid) ==
    /\ pc[r] = "idle"
    /\ MoveSerializerValid(m, sid)
    /\ sid # 0
    /\ LET loc == PlayLocal(u, "", sid)
       IN
       \/ /\ ~SessionFound(r, sid, u)
          /\ resp' = [resp EXCEPT ![r] = ErrorResponse(404, "session not found")]
          /\ pc' = [pc EXCEPT ![r] = "commit"]
          /\ local' = [local EXCEPT ![r] = loc]
          /\ UNCHANGED lock
       \/ /\ SessionFound(r, sid, u)
          /\ ~LockedByOther(sid, r)       \* otherwise the statement waits
          /\ lock' = [lock EXCEPT ![sid] = r]
          /\ IF MoveRejectsEnded(Snapshot(sid))
             THEN /\ resp' = [resp EXCEPT ![r] =
                                ErrorResponse(400, "session already ended")]
                  /\ pc' = [pc EXCEPT ![r] = "commit"]
                  /\ local' = [local EXCEPT ![r] =
                                [loc EXCEPT !.session = Snapshot(sid)]]
             ELSE \* the model admits only moves that fit its bound
                  /\ ChainCount(sid) + Cardinality(PendingAppends(sid)) < MaxChain
                  /\ local' = [local EXCEPT ![r] =
                        ReadChain([loc EXCEPT !.move = m,
                                              !.session = Snapshot(sid)],
                                  entries, sid)]
                  /\ pc' = [pc EXCEPT ![r] = "m_ai"]
                  /\ UNCHANGED resp
    /\ UNCHANGED <<sessions, entries, scores, now, delivered, wins, cvars, nvars, gvars>>

MoveOnSession(r) ==
    \E u \in Users, m \in MoveInputs, sid \in PlaySessionIdInputs :
        MoveOnSessionRequest(r, u, m, sid)

\* else: session = GameSession.objects.create(user=request.user);
\* ChainEntry.objects.create(session=session, position=1, value="rock");
\* then the reads of the chain, up to the call of the judge
MoveNewSession(r) ==
    /\ pc[r] = "idle"
    /\ Len(sessions) + 1 \in DOMAIN lock     \* the model's bound
    /\ \E u \in Users, m \in MoveInputs :
        /\ MoveSerializerValid(m, 0)
        /\ LET sid == Len(sessions) + 1
               row == [user |-> u, active |-> TRUE, ended_at |-> NULL, tx |-> r]
               loc == [PlayLocal(u, m, 0) EXCEPT
                         !.session = [id |-> sid, active |-> TRUE,
                                      ended_at |-> NULL]]
           IN  /\ sessions' = Append(sessions, row)
               /\ entries' = entries \cup {SeedEntry(sid)}
               /\ lock' = [lock EXCEPT ![sid] = r]
               /\ local' = [local EXCEPT ![r] = ReadChain(loc, entries', sid)]
    /\ pc' = [pc EXCEPT ![r] = "m_ai"]
    /\ UNCHANGED <<scores, now, resp, delivered, wins, cvars, nvars, gvars>>

\* get_ai_decision raises: except Exception -> 502
MoveAIRaises(r) ==
    /\ pc[r] = "m_ai"
    /\ resp' = [resp EXCEPT ![r] = ErrorResponse(502, "AI service error")]
    /\ pc' = [pc EXCEPT ![r] = "commit"]
    /\ UNCHANGED <<sessions, entries, scores, lock, now, local, delivered, wins,
                   cvars, nvars, gvars>>

\* get_ai_decision returns ai_response, and the rest of the atomic block runs:
\*   the check of the response's shape;
\*   ChainEntry.objects.create(session=session, position=next_pos, value=move)
\*     (unique_together (session, position): a second row at a position is an
\*      IntegrityError, which leaves the atomic block and rolls it back; the
\*      transaction of an existing session has written nothing before this);
\*   current_score = ChainEntry.objects.filter(session=session).count();
\*   `if result:` the accepted response;
\*   else session.active = False; session.ended_at = timezone.now(); save;
\*     final_score = current_score; Score.objects.create(...);
\*     best_score = ...; the losing response.
MoveApplyVerdictOf(r, ai) ==
    /\ pc[r] = "m_ai"
    /\ LET sid == local[r].session.id
            pos == local[r].next_pos
            u == local[r].user
        IN
        IF "result" \notin DOMAIN ai
        THEN /\ resp' = [resp EXCEPT ![r] = ErrorResponse(502, "invalid ai response")]
             /\ pc' = [pc EXCEPT ![r] = "commit"]
             /\ UNCHANGED <<sessions, entries, scores, lock, now, local, wins>>
        ELSE IF \E e \in entries : e.session = sid /\ e.position = pos
        THEN /\ resp' = [resp EXCEPT ![r] = ErrorResponse(500, "IntegrityError")]
             /\ lock' = [s \in DOMAIN lock |-> IF lock[s] = r THEN 0 ELSE lock[s]]
             /\ pc' = [pc EXCEPT ![r] = "respond"]
             /\ local' = [local EXCEPT ![r].ai_response = ai]
             /\ UNCHANGED <<sessions, entries, scores, now, wins>>
        ELSE
          /\ entries' = entries \cup
                {[session |-> sid, position |-> pos, value |-> local[r].move]}
          /\ LET current_score == CurrentScore(entries', sid)
                 final_score == FinalScore(current_score)
             IN  IF MoveAccepted(ai)
                 THEN /\ resp' = [resp EXCEPT ![r] =
                                AcceptedResponse(ai.message, current_score, sid)]
                      /\ local' = [local EXCEPT ![r].ai_response = ai]
                      /\ wins' = [wins EXCEPT ![sid] = @ + 1]
                      /\ UNCHANGED <<sessions, scores, now>>
                 ELSE /\ sessions' = [sessions EXCEPT
                                        ![sid] = EndedRow(sessions[sid], now)]
                      /\ now' = now + 1
                      /\ local' = [local EXCEPT
                            ![r].ai_response = ai,
                            ![r].session = [id |-> sid,
                                            active |-> sessions'[sid].active,
                                            ended_at |-> sessions'[sid].ended_at]]
                      /\ scores' = Append(scores, ScoreRow(u, sid, final_score, r))
                      /\ resp' = [resp EXCEPT ![r] =
                            LostResponse(ai.message, final_score, sid,
                                         BestScore(scores', r, u))]
                      /\ UNCHANGED wins
          /\ pc' = [pc EXCEPT ![r] = "commit"]
          /\ UNCHANGED lock
    /\ UNCHANGED <<delivered, cvars, nvars, gvars>>

\* The judge as the views of this section see it: any value it can return
MoveApplyVerdict(r) == \E ai \in AIResults : MoveApplyVerdictOf(r, ai)

-----------------------------------------------------------------------------
(* EndSessionAPIView.post                                                  *)

\* session_uuid = UUID(session_id) raises: except Exception -> 400
EndRejected(r) ==
    /\ pc[r] = "idle"
    /\ \E u \in Users, arg \in EndSessionIdInputs :
        /\ ~UUIDParses(arg)
        /\ local' = [local EXCEPT ![r] = EndLocal(u, arg[2])]
    /\ resp' = [resp EXCEPT ![r] = ErrorResponse(400, "invalid session id")]
    /\ pc' = [pc EXCEPT ![r] = "respond"]
    /\ UNCHANGED <<sessions, entries, scores, lock, now, delivered, wins, cvars, nvars, gvars>>

\* session = GameSession.objects.select_for_update().get(id=session_uuid,
\* user=request.user) and the rest of the atomic block:
\*   final_score = ChainEntry.objects.filter(session=session).count();
\*   if session.active: mark ended, save, Score.objects.create(...)
\*   else: final_score = stored["points__max"] or final_score;
\*   best_score = ...; the payload.
EndSessionRequest(r, u, arg) ==
    /\ pc[r] = "idle"
    /\ UUIDParses(arg)
    /\ LET sid == arg[2]
           loc == EndLocal(u, sid)
       IN
       \/ /\ ~SessionFound(r, sid, u)
          /\ resp' = [resp EXCEPT ![r] = ErrorResponse(404, "session not found")]
          /\ local' = [local EXCEPT ![r] = loc]
          /\ UNCHANGED <<sessions, scores, lock, now>>
       \/ /\ SessionFound(r, sid, u)
          /\ ~LockedByOther(sid, r)       \* otherwise the statement waits
          /\ lock' = [lock EXCEPT ![sid] = r]
          /\ LET session == Snapshot(sid)
                 count == ChainCount(sid)
             IN  IF EndFinalizes(session)
                 THEN /\ sessions' = [sessions EXCEPT
                                        ![sid] = EndedRow(sessions[sid], now)]
                      /\ now' = now + 1
                      /\ scores' = Append(scores, ScoreRow(u, sid, count, r))
                      /\ local' = [local EXCEPT ![r] = [loc EXCEPT !.session =
                            [id |-> sid, active |-> sessions'[sid].active,
                             ended_at |-> sessions'[sid].ended_at]]]
                      /\ resp' = [resp EXCEPT ![r] =
                            EndResponse(sid, count, BestScore(scores', r, u),
                                IF sessions'[sid].ended_at # NULL
                                THEN "Session ended"
                                ELSE "Session already ended")]
                 ELSE /\ LET stored == StoredPoints(scores, r, u, sid)
                             final_score == IF stored # 0 THEN stored ELSE count
                         IN  resp' = [resp EXCEPT ![r] =
                                EndResponse(sid, final_score,
                                    BestScore(scores, r, u),
                                    IF session.ended_at # NULL
                                    THEN "Session ended"
                                    ELSE "Session already ended")]
                      /\ local' = [local EXCEPT ![r] =
                                        [loc EXCEPT !.session = session]]
                      /\ UNCHANGED <<sessions, scores, now>>
    /\ pc' = [pc EXCEPT ![r] = "commit"]
    /\ UNCHANGED <<entries, delivered, wins, cvars, nvars, gvars>>

EndSession(r) ==
    \E u \in Users, arg \in EndSessionIdInputs : EndSessionRequest(r, u, arg)

-----------------------------------------------------------------------------
(* Leaving `with transaction.atomic()` by a return: the transaction commits, *)
(* its rows become visible, its row locks are released and the response is   *)
(* delivered.                                                                *)

\* The final score a response reports for its session, if it reports one
Reports(rsp) ==
    IF rsp.status = 200 /\ rsp.body = "end" THEN {rsp.final_score}
    ELSE IF rsp.status = 200 /\ rsp.body = "move" /\ ~rsp.accepted THEN {rsp.score}
    ELSE {}

Commit(r) ==
    /\ pc[r] = "commit"
    /\ sessions' = [i \in DOMAIN sessions |->
            IF sessions[i].tx = r THEN [sessions[i] EXCEPT !.tx = 0] ELSE sessions[i]]
    /\ scores' = [i \in DOMAIN scores |->
            IF scores[i].tx = r THEN [scores[i] EXCEPT !.tx = 0] ELSE scores[i]]
    /\ lock' = [s \in DOMAIN lock |-> IF lock[s] = r THEN 0 ELSE lock[s]]
    /\ delivered' = [s \in DOMAIN delivered |->
            IF s = resp[r].session_id THEN delivered[s] \cup Reports(resp[r])
            ELSE delivered[s]]
    /\ pc' = [pc EXCEPT ![r] = "idle"]
    /\ local' = [local EXCEPT ![r] = NoLocal]
    /\ resp' = [resp EXCEPT ![r] = NoResp]
    /\ UNCHANGED <<entries, now, wins, cvars, nvars, gvars>>

\* A response built outside the atomic block is delivered.
Respond(r) ==
    /\ pc[r] = "respond"
    /\ pc' = [pc EXCEPT ![r] = "idle"]
    /\ local' = [local EXCEPT ![r] = NoLocal]
    /\ resp' = [resp EXCEPT ![r] = NoResp]
    /\ UNCHANGED <<sessions, entries, scores, lock, now, delivered, wins, cvars, nvars, gvars>>

Next ==
    \E r \in Reqs :
        \/ MoveRejected(r)
        \/ MoveOnSession(r)
        \/ MoveNewSession(r)
        \/ MoveAIRaises(r)
        \/ MoveApplyVerdict(r)
        \/ EndRejected(r)
        \/ EndSession(r)
        \/ Commit(r)
        \/ Respond(r)

Spec == Init /\ [][Next]_allvars

-----------------------------------------------------------------------------
(* GameSession.end_session, called on a session object that the caller    *)
(* loaded earlier                                                          *)

\* What end_session returns: the Score it created, or None
ScoreResult(sid, points) ==
    [NoResp EXCEPT !.body = "Score", !.session_id = sid, !.score = points]
NoneResult == [NoResp EXCEPT !.body = "None"]

\* session = GameSession.objects.get(id=...): the caller holds a copy of the
\* committed row and no lock.  (While a transaction holds the row the read
\* returns the row as it was committed before, the copy that a read just
\* before that transaction took.)
LoadSession(r) ==
    /\ pc[r] = "idle"
    /\ \E sid \in DOMAIN sessions, rec \in BOOLEAN :
        /\ sessions[sid].tx = 0
        /\ lock[sid] = 0
        /\ local' = [local EXCEPT ![r] =
                [NoLocal EXCEPT !.view = "end_session",
                                !.user = sessions[sid].user,
                                !.session_id = sid,
                                !.session = Snapshot(sid),
                                !.record_score = rec]]
    /\ pc' = [pc EXCEPT ![r] = "loaded"]
    /\ UNCHANGED <<sessions, entries, scores, lock, now, resp, delivered, wins,
                   cvars, nvars, gvars>>

\* `if not self.active`: the flag of the caller's copy
AlreadyEnded(session) == ~session.active

\* `if not self.active: return None`; else, inside transaction.atomic():
\* self.active = False; self.ended_at = timezone.now();
\* self.save(update_fields=[...]), an UPDATE that waits for the row's lock
\* and holds it to the end of the transaction
EndSessionMethod(r) ==
    /\ pc[r] = "loaded"
    /\ LET sid == local[r].session.id
       IN  IF AlreadyEnded(local[r].session)
           THEN /\ resp' = [resp EXCEPT ![r] = NoneResult]
                /\ pc' = [pc EXCEPT ![r] = "respond"]
                /\ UNCHANGED <<local, lock, now>>
           ELSE /\ ~LockedByOther(sid, r)
                /\ lock' = [lock EXCEPT ![sid] = r]
                /\ local' = [local EXCEPT ![r].session =
                        [id |-> sid, active |-> FALSE, ended_at |-> now]]
                /\ now' = now + 1
                /\ pc' = [pc EXCEPT ![r] = "e_saved"]
                /\ UNCHANGED resp
    /\ UNCHANGED <<sessions, entries, scores, delivered, wins, cvars, nvars, gvars>>

\* `if record_score:` points = self.chain_length();
\* score = Score.objects.create(user=self.user, session=self, points=points);
\* return score; else return None.  The return leaves the atomic block: the
\* UPDATE and the Score become visible and the row lock is released
EndSessionRecord(r) ==
    /\ pc[r] = "e_saved"
    /\ LET sid == local[r].session.id
           points == ChainCount(sid)
       IN  /\ sessions' = [sessions EXCEPT
                    ![sid] = EndedRow(@, local[r].session.ended_at)]
           /\ IF local[r].record_score
              THEN /\ scores' = Append(scores,
                            ScoreRow(sessions[sid].user, sid, points, 0))
                   /\ resp' = [resp EXCEPT ![r] = ScoreResult(sid, points)]
              ELSE /\ resp' = [resp EXCEPT ![r] = NoneResult]
                   /\ UNCHANGED scores
           /\ lock' = [lock EXCEPT ![sid] = 0]
    /\ pc' = [pc EXCEPT ![r] = "respond"]
    /\ UNCHANGED <<entries, now, local, delivered, wins, cvars, nvars, gvars>>

\* The handlers, and callers of the method
MethodNext ==
    \E r \in Reqs :
        \/ MoveRejected(r)
        \/ MoveOnSession(r)
        \/ MoveNewSession(r)
        \/ MoveAIRaises(r)
        \/ MoveApplyVerdict(r)
        \/ EndRejected(r)
        \/ EndSession(r)
        \/ Commit(r)
        \/ Respond(r)
        \/ LoadSession(r)
        \/ EndSessionMethod(r)
        \/ EndSessionRecord(r)

MethodSpec == Init /\ [][MethodNext]_allvars

\* The same handlers over two sessions
InitPair ==
    /\ TablesInit(PairIds)
    /\ ClientIdle
    /\ NormIdle
    /\ base_url = JudgeUrl

SpecPair == InitPair /\ [][Next]_allvars

-----------------------------------------------------------------------------
(* views.py: LeaderboardTopView                                            *)

\* The limit query parameter of GET /leaderboard/top: 0 is absent
LimitInputs == {0, 1, 2}

\* Django's answer to an exception no handler catches
ServerError == ErrorResponse(500, "server error")

\* LeaderboardTopView.get.  Its first statement calls safe_int, a name that
\* views.py neither defines nor imports: evaluating it raises NameError
\* before the query parameter is read, the exception is none of those that
\* rest_framework's handler turns into a response, and Django answers 500.
\* The query of the lines below it is never built.  The view opens no
\* transaction and writes nothing.
LeaderboardTop(r) ==
    /\ pc[r] = "idle"
    /\ \E u \in Users, limit \in LimitInputs :
        local' = [local EXCEPT ![r] =
                    [NoLocal EXCEPT !.view = "top", !.user = u, !.limit = limit]]
    /\ resp' = [resp EXCEPT ![r] = ServerError]
    /\ pc' = [pc EXCEPT ![r] = "respond"]
    /\ UNCHANGED <<sessions, entries, scores, lock, now, delivered, wins, cvars, nvars, gvars>>

\* Score rows as earlier sessions left them (the session of a row is NULL
\* once the session is deleted, models.py: on_delete=SET_NULL)
StoredScores ==
    UNION {[1..n -> [user : Users, session : {NULL}, points : 1..MaxPoints,
                     tx : {0}]] : n \in 0..MaxRows}

BoardInit ==
    /\ sessions = <<>>
    /\ entries = {}
    /\ scores \in StoredScores
    /\ lock = [s \in SessionIds |-> 0]
    /\ now = 1
    /\ pc = [r \in Reqs |-> "idle"]
    /\ local = [r \in Reqs |-> NoLocal]
    /\ resp = [r \in Reqs |-> NoResp]
    /\ delivered = [s \in SessionIds |-> {}]
    /\ wins = [s \in SessionIds |-> 0]
    /\ ClientIdle
    /\ NormIdle
    /\ base_url = JudgeUrl

BoardNext ==
    \E r \in Reqs :
        \/ LeaderboardTop(r)
        \/ Respond(r)

BoardSpec == BoardInit /\ [][BoardNext]_allvars

-----------------------------------------------------------------------------
(* ai_client.py: the circuit breaker                                       *)

\* (variant: the cooldown counts as elapsed when the time equals it)
CooldownElapsedAtEqual(t, last) == t - last >= CIRCUIT_COOLDOWN

\* time.monotonic() - _last_failure_monotonic > _CIRCUIT_COOLDOWN
CooldownElapsed(t, last) == t - last > CIRCUIT_COOLDOWN

\* _is_circuit_open(): the value it returns
IsCircuitOpen(count, t, last) ==
    IF count < CIRCUIT_THRESHOLD THEN FALSE
    ELSE IF CooldownElapsed(t, last) THEN FALSE
    ELSE TRUE

\* _is_circuit_open(): the _failure_count it leaves
CountAfterCheck(count, t, last) ==
    IF count < CIRCUIT_THRESHOLD THEN count
    ELSE IF CooldownElapsed(t, last) THEN 0
    ELSE count

\* (variant: a failure counts twice)
RecordFailureTwice(count) == count + 2

\* _record_failure(): _failure_count += 1
RecordFailure(count) == count + 1

\* (variant: a success takes one failure off the counter)
RecordSuccessDecrements(count) == IF count > 0 THEN count - 1 ELSE 0

\* _record_success(): _failure_count = 0
RecordSuccess(count) == 0

-----------------------------------------------------------------------------
(* ai_client.py: the delays of the retry loop, in milliseconds             *)

Min(a, b) == IF a <= b THEN a ELSE b

\* int(retry_after), else float(retry_after), else None (here: 0 - 2)
NoWait == 0 - 2
ParseRetryAfter(h) ==
    IF h = "2" THEN 2000
    ELSE IF h = "1e400" THEN HUGE
    ELSE IF h = "inf" THEN INF
    ELSE NoWait

\* random.uniform(0, 0.5) and random.uniform(0, 0.3): the two ends of the
\* range, in milliseconds
Jitter5 == {0, 500}
Jitter3 == {0, 300}

\* (variant: the jitter is taken off the delay)
PlusJitterBelow(wait, j) == IF wait \in {INF, HUGE} THEN wait ELSE wait - j

\* wait + random.uniform(0, 0.5): inf stays inf, and the sum with an int too
\* large for a float raises (see Retry)
PlusJitter(wait, j) == IF wait \in {INF, HUGE} THEN wait ELSE wait + j

\* status 429: the Retry-After header if present and a number, else
\* min(2 ** attempt, 30); the jitter is added to either
Wait429(h, attempt, j) ==
    PlusJitter(IF h # "" /\ ParseRetryAfter(h) # NoWait THEN ParseRetryAfter(h)
               ELSE Min((2 ^ attempt) * 1000, 30000),
               j)

\* status 5xx: min(0.5 * (2 ** (attempt - 1)) + jitter, 10.0)
Wait5xx(attempt, j) == Min(500 * (2 ^ (attempt - 1)) + j, 10000)

\* httpx.RequestError, httpx.TimeoutException:
\* min(0.25 * (2 ** (attempt - 1)) + random.uniform(0, 0.3), 10.0)
WaitRequestError(attempt, j) == Min(250 * (2 ^ (attempt - 1)) + j, 10000)

\* except Exception: min(0.5 * attempt + random.uniform(0, 0.5), 10.0)
WaitException(attempt, j) == Min(500 * attempt + j, 10000)

-----------------------------------------------------------------------------
(* ai_client.py: the normalizer of the judge's text                        *)
(*                                                                         *)
(* A text is a sequence of lexemes: a boolean token, a separator, a blank, *)
(* a line break, a word, or a brace-delimited span.  A brace span is one   *)
(* lexeme: either the JSON text of an object (JsonObjects gives the dict   *)
(* json.loads makes of it) or braces that hold no JSON.  A JSON value is   *)
(* tagged with its type; the text of a string value is again a sequence of *)
(* lexemes.                                                                *)

MaxText == 4                     \* lexemes of a judge text

Absent == [type |-> "absent", bool |-> FALSE, text |-> <<>>]
Bool(b) == [type |-> "bool", bool |-> b, text |-> <<>>]
Str(t) == [type |-> "str", bool |-> FALSE, text |-> t]
Number == [type |-> "number", bool |-> FALSE, text |-> <<>>]

\* A dict of the keys the normalizer looks at; other: one key besides them
NoDict ==
    [results |-> Absent, result |-> Absent, message |-> Absent,
     explanation |-> Absent, other |-> Absent]

BoolTokens == {"true", "false", "yes", "no", "1", "0"}
TrueTokens == {"true", "yes", "1"}
Separators == {"-", ":"}
Whitespace == {" ", "\n"}

\* str.lower(), and the re.I of the pattern
Lower(x) == IF x = "TRUE" THEN "true" ELSE IF x = "No" THEN "no" ELSE x

\* The JSON objects a judge text can hold, by their text
JsonObjects ==
    [o \in {"{}", "{x: paper}", "{x: no - paper}", "{results: true - paper}",
            "{results: paper, result: false, message: paper}",
            "{result: win}", "{result: lose}", "{result: tie}",
            "{result: error}", "{result: draw}",
            "{result: true, explanation: paper}",
            "{result: false, message: paper}",
            "{result: 'false'}", "{result: 'false', message: paper}",
            "{result: 'yes', explanation: paper}",
            "{result: 'no: paper', message: paper}",
            "{result: 0, message: paper}"} |->
        CASE o = "{}" -> NoDict
          [] o = "{x: paper}" -> [NoDict EXCEPT !.other = Str(<<"paper">>)]
          [] o = "{x: no - paper}" ->
                [NoDict EXCEPT !.other = Str(<<"no", " ", "-", " ", "paper">>)]
          [] o = "{results: true - paper}" ->
                [NoDict EXCEPT !.results = Str(<<"true", " ", "-", " ", "paper">>)]
          [] o = "{results: paper, result: false, message: paper}" ->
                [NoDict EXCEPT !.results = Str(<<"paper">>), !.result = Bool(FALSE),
                               !.message = Str(<<"paper">>)]
          [] o = "{result: win}" -> [NoDict EXCEPT !.result = Str(<<"win">>)]
          [] o = "{result: lose}" -> [NoDict EXCEPT !.result = Str(<<"lose">>)]
          [] o = "{result: tie}" -> [NoDict EXCEPT !.result = Str(<<"tie">>)]
          [] o = "{result: error}" -> [NoDict EXCEPT !.result = Str(<<"error">>)]
          [] o = "{result: draw}" -> [NoDict EXCEPT !.result = Str(<<"draw">>)]
          [] o = "{result: true, explanation: paper}" ->
                [NoDict EXCEPT !.result = Bool(TRUE), !.explanation = Str(<<"paper">>)]
          [] o = "{result: false, message: paper}" ->
                [NoDict EXCEPT !.result = Bool(FALSE), !.message = Str(<<"paper">>)]
          [] o = "{result: 'false'}" -> [NoDict EXCEPT !.result = Str(<<"false">>)]
          [] o = "{result: 'false', message: paper}" ->
                [NoDict EXCEPT !.result = Str(<<"false">>), !.message = Str(<<"paper">>)]
          [] o = "{result: 'yes', explanation: paper}" ->
                [NoDict EXCEPT !.result = Str(<<"yes">>),
                               !.explanation = Str(<<"paper">>)]
          [] o = "{result: 'no: paper', message: paper}" ->
                [NoDict EXCEPT !.result = Str(<<"no", ":", " ", "paper">>),
                               !.message = Str(<<"paper">>)]
          [] o = "{result: 0, message: paper}" ->
                [NoDict EXCEPT !.result = Number, !.message = Str(<<"paper">>)]]

\* Braces that hold no JSON
BrokenBraces == "{paper}"
BraceLexemes == DOMAIN JsonObjects \cup {BrokenBraces}

\* The lexemes of the texts the model draws freely
Alphabet ==
    BoolTokens \cup {"TRUE"} \cup Separators \cup Whitespace
        \cup {"paper", "{x: paper}", BrokenBraces}

\* What can follow the separator of "<token> <separator> <explanation>"
Explanations ==
    {e \in UNION {[1..n -> {"paper", " ", "\n", "-", "{x: paper}"}] :
                    n \in 1..(MaxText - 1)} :
        e[1] \notin Whitespace /\ e[Len(e)] \notin Whitespace}

\* The judge texts: the free texts, each JSON object on its own, and the
\* texts "<token> <separator> <explanation>" with or without the blanks
ModelTexts ==
    UNION {[1..n -> Alphabet] : n \in 0..MaxText}
        \cup {<<o>> : o \in DOMAIN JsonObjects}
        \cup {<<t>> \o b1 \o <<sep>> \o b2 \o e :
                t \in BoolTokens \cup {"TRUE", "No"}, sep \in Separators,
                b1 \in {<<>>, <<" ">>}, b2 \in {<<>>, <<" ">>},
                e \in Explanations}

Least(S) == CHOOSE x \in S : \A y \in S : x <= y

\* str.strip(), and the left half of it (what \s* takes)
NonBlank(s) == {i \in DOMAIN s : s[i] \notin Whitespace}
Strip(s) ==
    IF NonBlank(s) = {} THEN <<>>
    ELSE SubSeq(s, Least(NonBlank(s)), Max(NonBlank(s)))
LStrip(s) ==
    IF NonBlank(s) = {} THEN <<>> ELSE SubSeq(s, Least(NonBlank(s)), Len(s))

\* (?P<explanation>.+)$ : at least one character, none a line break
ExplanationMatches(e) == e # <<>> /\ \A i \in DOMAIN e : e[i] # "\n"

\* What is left of value after `^\s*(?P<boolean>...)\b\s*[-:]\s*`, when the
\* pattern gets that far (value is stripped)
AfterSeparator(value) ==
    IF value = <<>> THEN <<>>
    ELSE IF Lower(value[1]) \notin BoolTokens THEN <<>>
    ELSE LET rest == LStrip(Tail(value))
         IN  IF rest = <<>> THEN <<>>
             ELSE IF rest[1] \notin Separators THEN <<>>
             ELSE LStrip(Tail(rest))

ParseFailed == [ok |-> FALSE, truth |-> FALSE, explanation |-> <<>>]

\* _parse_result_and_explanation_from_field(value); ok FALSE: ValueError
ParseResultAndExplanation(v) ==
    IF v.type # "str" THEN ParseFailed
    ELSE LET value == Strip(v.text)
         IN  IF ExplanationMatches(AfterSeparator(value))
             THEN [ok |-> TRUE, truth |-> Lower(value[1]) \in TrueTokens,
                   explanation |-> AfterSeparator(value)]
             ELSE IF Len(value) = 1 /\ Lower(value[1]) \in BoolTokens
             THEN [ok |-> TRUE, truth |-> Lower(value[1]) \in TrueTokens,
                   explanation |-> <<>>]
             ELSE ParseFailed

\* s[start : end + 1] of the first "{" and the last "}" is the text of a dict
EmbeddedObject(s) ==
    LET braces == {i \in DOMAIN s : s[i] \in BraceLexemes}
    IN  /\ braces # {}
        /\ Least(braces) = Max(braces)
        /\ s[Least(braces)] \in DOMAIN JsonObjects

\* _parse_model_text_response(text): the dict of the JSON text, else of the
\* first {...} in it, else {"results": s}
ParseModelText(text) ==
    LET s == Strip(text)
    IN  IF Len(s) = 1 /\ s[1] \in DOMAIN JsonObjects THEN JsonObjects[s[1]]
        ELSE IF EmbeddedObject(s)
        THEN JsonObjects[s[Least({i \in DOMAIN s : s[i] \in BraceLexemes})]]
        ELSE [NoDict EXCEPT !.results = Str(s)]

\* `x or y` takes x when it is truthy
Truthy(v) == (v.type = "str" /\ v.text # <<>>) \/ (v.type = "bool" /\ v.bool)

\* str(parsed.get("message") or parsed.get("explanation") or "")
MessageOf(parsed) ==
    IF Truthy(parsed.message) THEN parsed.message.text
    ELSE IF Truthy(parsed.explanation) THEN parsed.explanation.text
    ELSE <<>>

Keys(parsed) ==
    {k \in {"results", "result", "message", "explanation", "other"} :
        parsed[k].type # "absent"}

\* `if "results" in parsed`: the parse of that field
TryResults(parsed) ==
    IF "results" \in Keys(parsed) THEN ParseResultAndExplanation(parsed.results)
    ELSE ParseFailed

\* raw_result + " - "
ResultFieldText(raw) == raw \o <<" ", "-", " ">>

\* `if "result" in parsed`: a bool is taken as it is, a string is parsed
TryResult(parsed) ==
    IF parsed.result.type = "bool"
    THEN [ok |-> TRUE, truth |-> parsed.result.bool, explanation |-> MessageOf(parsed)]
    ELSE IF parsed.result.type = "str"
    THEN LET p == ParseResultAndExplanation(Str(ResultFieldText(parsed.result.text)))
         IN  IF p.ok THEN [p EXCEPT !.explanation = MessageOf(parsed)] ELSE ParseFailed
    ELSE ParseFailed

\* (variant: the single value is never parsed)
TrySingleNever(parsed) == ParseFailed

\* `if len(parsed) == 1`: the parse of the only value
TrySingle(parsed) ==
    IF Cardinality(Keys(parsed)) = 1
    THEN ParseResultAndExplanation(parsed[CHOOSE k \in Keys(parsed) : TRUE])
    ELSE ParseFailed

Decided(via, p) == [via |-> via, result |-> p.truth, message |-> p.explanation]

\* get_ai_decision from `parsed = _parse_model_text_response(model_text)` to
\* the return of the verdict; via: the return statement taken
Normalize(text) ==
    LET parsed == ParseModelText(text)
    IN  IF TryResults(parsed).ok THEN Decided("results", TryResults(parsed))
        ELSE IF TryResult(parsed).ok THEN Decided("result", TryResult(parsed))
        ELSE IF TrySingle(parsed).ok THEN Decided("single", TrySingle(parsed))
        ELSE [via |-> "fallback", result |-> TRUE, message |-> text]

-----------------------------------------------------------------------------
(* ai_client.py: get_ai_decision                                           *)

Returned(cl, ai) == [cl EXCEPT !.pc = "returned", !.result = ai]

\* time.monotonic() advances
Tick ==
    /\ \E d \in TickSteps :
        /\ mono + d <= MaxClock
        /\ mono' = mono + d
    /\ UNCHANGED <<failure_count, last_failure, base_url, call, vars, nvars, gvars>>

\* The call up to its first await of client.post: `if _is_circuit_open()`,
\* `if not base_url`, client = await get_shared_client(), attempt = 1
Decide(c) ==
    /\ call[c].pc = "idle"
    /\ failure_count' = CountAfterCheck(failure_count, mono, last_failure)
    /\ IF IsCircuitOpen(failure_count, mono, last_failure)
       THEN call' = [call EXCEPT ![c] =
                Returned(NoCall, [result |-> FALSE, message |-> CircuitOpenMsg])]
       ELSE IF base_url = ""
       THEN call' = [call EXCEPT ![c] =
                Returned(NoCall, [result |-> FALSE, message |-> NotConfiguredMsg])]
       ELSE call' = [call EXCEPT ![c] = [NoCall EXCEPT !.pc = "post", !.attempt = 1]]
    /\ UNCHANGED <<last_failure, mono, base_url, vars, nvars, gvars>>

\* A failed attempt that is retried: _record_failure(), then
\* asyncio.sleep(wait + jitter); the sum raises when wait is HUGE, inside an
\* except clause, where no other clause of the try statement catches it
Retry(c, count, wait) ==
    /\ failure_count' = RecordFailure(count)
    /\ last_failure' = mono
    /\ IF wait = HUGE
       THEN call' = [call EXCEPT ![c].pc = "raised", ![c].posts = @ + 1]
       ELSE call' = [call EXCEPT ![c].pc = "sleep", ![c].wait = wait,
                                 ![c].posts = @ + 1]

\* A failed attempt that ends the call: _record_failure(), return
GiveUp(c, count, msg, status) ==
    /\ failure_count' = RecordFailure(count)
    /\ last_failure' = mono
    /\ call' = [call EXCEPT ![c] =
            Returned([call[c] EXCEPT !.posts = @ + 1, !.status = status],
                     [result |-> FALSE, message |-> msg])]

\* (variant: every status from 400 on is retried)
RetriableStatusFrom400(status) == status >= 400 /\ status < 600

\* `if status and 500 <= status < 600`
RetriableStatus(status) == status >= 500 /\ status < 600

\* outer = resp.json(), else {"response": resp.text}; then
\* _extract_model_text(outer).  kind "raises": outer has no get (it is no
\* dict), AttributeError; "none": no model text, or one that is no string
\* (both end in ValueError); "text": the model text
ExtractModelText(body) ==
    IF body.wrapper = "not an object" THEN [kind |-> "raises", text |-> <<>>]
    ELSE IF body.wrapper \in {"no text", "text not a string"}
    THEN [kind |-> "none", text |-> <<>>]
    ELSE IF Strip(body.text) = <<>> THEN [kind |-> "none", text |-> <<>>]
    ELSE [kind |-> "text", text |-> body.text]

\* One pass of the loop body from the answer o of client.post on:
\* resp.raise_for_status(); _record_success(); the extraction and parsing of
\* the body; or one of the except clauses.
AttemptMeets(c, o) ==
    /\ call[c].pc = "post"
    /\ LET a == call[c].attempt
           extracted == ExtractModelText(o.body)
       IN
        IF o.kind = "response" /\ o.status >= 200 /\ o.status < 300
        THEN IF extracted.kind = "raises"
             THEN \* AttributeError -> except Exception
                  \E j \in Jitter5 :
                    Retry(c, RecordSuccess(failure_count), WaitException(a, j))
             ELSE IF extracted.kind = "none"
             THEN \* raise ValueError -> except ValueError
                  GiveUp(c, RecordSuccess(failure_count), InvalidResponseMsg, 0)
             ELSE /\ failure_count' = RecordSuccess(failure_count)
                  /\ call' = [call EXCEPT ![c] =
                        Returned([call[c] EXCEPT !.posts = @ + 1],
                                 [result |-> Normalize(extracted.text).result,
                                  message |-> "explanation"])]
                  /\ UNCHANGED last_failure
        ELSE IF o.kind = "response" /\ o.status = 429
        THEN \E j \in Jitter5 :
                Retry(c, failure_count, Wait429(o.retry_after, a, j))
        ELSE IF o.kind = "response" /\ RetriableStatus(o.status)
        THEN \E j \in Jitter3 : Retry(c, failure_count, Wait5xx(a, j))
        ELSE IF o.kind = "response"
        THEN GiveUp(c, failure_count, HttpErrorMsg, o.status)
        ELSE IF o.kind = "RequestError"
        THEN \E j \in Jitter3 : Retry(c, failure_count, WaitRequestError(a, j))
        ELSE \E j \in Jitter5 : Retry(c, failure_count, WaitException(a, j))
    /\ UNCHANGED <<mono, base_url, vars, nvars, gvars>>

Attempt(c) == \E o \in AttemptOutcomes : AttemptMeets(c, o)

\* asyncio.sleep(wait) returns and `continue` takes the loop on: the next
\* attempt, or past the last one `return {... "AI service unreachable"}`
Wake(c) ==
    /\ call[c].pc = "sleep"
    /\ call[c].wait # INF
    /\ IF call[c].attempt + 1 <= AI_RETRY_ATTEMPTS
       THEN call' = [call EXCEPT ![c].pc = "post", ![c].attempt = @ + 1,
                                 ![c].wait = 0]
       ELSE call' = [call EXCEPT ![c] =
                Returned([call[c] EXCEPT !.wait = 0],
                         [result |-> FALSE, message |-> UnreachableMsg])]
    /\ UNCHANGED <<failure_count, last_failure, mono, base_url, vars, nvars, gvars>>

\* The caller takes the returned value, or catches the exception
Return(c) ==
    /\ call[c].pc \in {"returned", "raised"}
    /\ call' = [call EXCEPT ![c] = NoCall]
    /\ UNCHANGED <<failure_count, last_failure, mono, base_url, vars, nvars, gvars>>

ClientInit ==
    /\ TablesInit(SessionIds)
    /\ ClientIdle
    /\ NormIdle
    /\ base_url \in BaseUrls

ClientNext ==
    \/ Tick
    \/ \E c \in Calls :
        \/ Decide(c)
        \/ Attempt(c)
        \/ Wake(c)
        \/ Return(c)

\* An awaited client.post ends (the client's timeout bounds it), a sleep of a
\* finite delay ends, and a caller that got its value goes on.
ClientFairness ==
    \A c \in Calls :
        /\ WF_allvars(Attempt(c))
        /\ WF_allvars(Wake(c))
        /\ WF_allvars(Return(c))

ClientSpec == ClientInit /\ [][ClientNext]_allvars /\ ClientFairness

-----------------------------------------------------------------------------
(* The views with the decision client as their judge: worker r's call of  *)
(* get_ai_decision is call r                                               *)

\* ai_response = async_to_sync(get_ai_decision)(move, chain=current_chain):
\* the call starts, inside the atomic block and with the row lock held
JudgeCall(r) == pc[r] = "m_ai" /\ Decide(r)

\* The view's thread is blocked while the call posts and sleeps
JudgeAttempt(r) == pc[r] = "m_ai" /\ Attempt(r)
JudgeWake(r) == pc[r] = "m_ai" /\ Wake(r)

\* The call returns and the rest of the atomic block runs on its value
JudgeReturns(r) ==
    /\ call[r].pc = "returned"
    /\ MoveApplyVerdictOf(r, call[r].result)

\* The call raises: `except Exception` of the view
JudgeRaises(r) == call[r].pc = "raised" /\ MoveAIRaises(r)

\* The call's frame is gone once the view has its value
JudgeDone(r) == pc[r] # "m_ai" /\ Return(r)

JudgedCommit(r) == call[r].pc = "idle" /\ Commit(r)
JudgedRespond(r) == call[r].pc = "idle" /\ Respond(r)

\* The requests of one reading of the monotonic clock: the breaker's
\* cooldown does not elapse between them
JudgedNext ==
    \E r \in Reqs :
        \/ MoveRejected(r)
        \/ MoveOnSession(r)
        \/ MoveNewSession(r)
        \/ JudgeCall(r)
        \/ JudgeAttempt(r)
        \/ JudgeWake(r)
        \/ JudgeReturns(r)
        \/ JudgeRaises(r)
        \/ JudgeDone(r)
        \/ EndRejected(r)
        \/ EndSession(r)
        \/ JudgedCommit(r)
        \/ JudgedRespond(r)

\* A handler that can take its next step takes it: a blocked client.post
\* ends (the client's timeout bounds it), a sleep of a finite delay ends, a
\* returned value is taken up, a finished atomic block commits.  Nothing is
\* assumed of the arrival of requests.
JudgedFairness ==
    \A r \in Reqs :
        /\ WF_allvars(JudgeCall(r))
        /\ WF_allvars(JudgeAttempt(r))
        /\ WF_allvars(JudgeWake(r))
        /\ WF_allvars(JudgeReturns(r))
        /\ WF_allvars(JudgeRaises(r))
        /\ WF_allvars(JudgeDone(r))
        /\ WF_allvars(JudgedCommit(r))
        /\ WF_allvars(JudgedRespond(r))

JudgedSpec == Init /\ [][JudgedNext]_allvars /\ JudgedFairness

-----------------------------------------------------------------------------
(* The loop body at any attempt: get_ai_decision takes retry_attempts as  *)
(* an argument, so a call can be at an attempt past the default's last    *)

\* The highest attempt number looked at
MaxAttempt == 6

BackoffInit ==
    /\ TablesInit(SessionIds)
    /\ failure_count = 0
    /\ last_failure = 0
    /\ mono = 0
    /\ call \in [Calls -> {[NoCall EXCEPT !.pc = "post", !.attempt = a,
                                          !.posts = a - 1] : a \in 1..MaxAttempt}]
    /\ GetterIdle
    /\ NormIdle
    /\ base_url = JudgeUrl

BackoffNext == \E c \in Calls : Attempt(c)

BackoffSpec == BackoffInit /\ [][BackoffNext]_allvars

-----------------------------------------------------------------------------
(* ai_client.py: get_shared_client                                         *)

\* Statements between two suspension points of a coroutine
Running == {"check", "acquire", "locked", "release", "return"}

\* An event loop runs one coroutine at a time, up to its next suspension;
\* coroutines of different loops (threads) interleave freely
CanRun(g) ==
    \A h \in Getters \ {g} :
        getter[h].loop = getter[g].loop => getter[h].pc \notin Running

\* A caller enters get_shared_client in event loop l
GetSharedClient(g, l) ==
    /\ getter[g].pc = "idle"
    /\ \A h \in Getters \ {g} :
            getter[h].loop = l => getter[h].pc \notin Running
    /\ getter' = [getter EXCEPT ![g] = [NoGetter EXCEPT !.pc = "check", !.loop = l]]
    /\ UNCHANGED <<client, made, client_lock, vars, cvars, nvars>>

\* `if _client is not None: return _client`
CheckClient(g) ==
    /\ getter[g].pc = "check"
    /\ CanRun(g)
    /\ IF client # None
       THEN getter' = [getter EXCEPT ![g].pc = "done", ![g].got = client]
       ELSE getter' = [getter EXCEPT ![g].pc = "acquire"]
    /\ UNCHANGED <<client, made, client_lock, vars, cvars, nvars>>

\* Lock.acquire: `not self._locked and (self._waiters is None or
\* all(w.cancelled() for w in self._waiters))`; no waiter is ever cancelled
LockFree(lk) == ~lk.locked /\ lk.waiters = <<>>

\* `async with _client_lock`, Lock.acquire(): the lock is taken if it is
\* free; otherwise the lock binds to the first waiter's loop, and a caller of
\* another loop gets RuntimeError "is bound to a different event loop"
AcquireLock(g) ==
    /\ getter[g].pc = "acquire"
    /\ CanRun(g)
    /\ LET bound == IF client_lock.loop = None THEN getter[g].loop
                    ELSE client_lock.loop
       IN
        IF LockFree(client_lock)
        THEN /\ client_lock' = [client_lock EXCEPT !.locked = TRUE]
             /\ getter' = [getter EXCEPT ![g].pc = "locked"]
        ELSE IF bound # getter[g].loop
        THEN /\ client_lock' = [client_lock EXCEPT !.loop = bound]
             /\ getter' = [getter EXCEPT ![g].pc = "raised"]
        ELSE /\ client_lock' = [client_lock EXCEPT !.loop = bound,
                                     !.waiters = Append(@, g)]
             /\ getter' = [getter EXCEPT ![g].pc = "waiting"]
    /\ UNCHANGED <<client, made, vars, cvars, nvars>>

\* `if _client is None: ... _client = httpx.AsyncClient(...)`
CreateClient(g) ==
    /\ getter[g].pc = "locked"
    /\ CanRun(g)
    /\ IF client = None
       THEN /\ client' = Cardinality(made) + 1
            /\ made' = made \cup {Cardinality(made) + 1}
       ELSE UNCHANGED <<client, made>>
    /\ getter' = [getter EXCEPT ![g].pc = "release"]
    /\ UNCHANGED <<client_lock, vars, cvars, nvars>>

\* Leaving `async with`, Lock.release(): _locked = False, then
\* _wake_up_first(): fut.set_result(True) on the first waiter's future.  A
\* future of the releasing caller's own loop wakes its waiter; a future of
\* another loop is set from a foreign thread, which does not wake that
\* loop's selector: its waiter goes on only if its loop had not yet gone to
\* sleep
ReleaseLock(g, heard) ==
    /\ getter[g].pc = "release"
    /\ CanRun(g)
    /\ client_lock' = [client_lock EXCEPT !.locked = FALSE]
    /\ IF client_lock.waiters = <<>>
       THEN getter' = [getter EXCEPT ![g].pc = "return"]
       ELSE LET w == Head(client_lock.waiters)
                same == getter[w].loop = getter[g].loop
            IN  getter' = [getter EXCEPT
                    ![g].pc = "return",
                    ![w].pc = IF getter[w].pc # "waiting" THEN @
                              ELSE IF same \/ heard THEN "woken" ELSE "lost"]
    /\ UNCHANGED <<client, made, vars, cvars, nvars>>

\* Lock.acquire() after `await fut`: self._waiters.remove(fut);
\* self._locked = True
ResumeAcquire(g) ==
    /\ getter[g].pc = "woken"
    /\ CanRun(g)
    /\ client_lock' = [client_lock EXCEPT
            !.locked = TRUE,
            !.waiters = SelectSeq(@, LAMBDA w : w # g)]
    /\ getter' = [getter EXCEPT ![g].pc = "locked"]
    /\ UNCHANGED <<client, made, vars, cvars, nvars>>

\* `return _client`
ReturnClient(g) ==
    /\ getter[g].pc = "return"
    /\ CanRun(g)
    /\ getter' = [getter EXCEPT ![g].pc = "done", ![g].got = client]
    /\ UNCHANGED <<client, made, client_lock, vars, cvars, nvars>>

GetterInit ==
    /\ TablesInit(SessionIds)
    /\ ClientIdle
    /\ NormIdle
    /\ base_url = JudgeUrl

GetterNext ==
    \E g \in Getters :
        \/ \E l \in Loops : GetSharedClient(g, l)
        \/ CheckClient(g)
        \/ AcquireLock(g)
        \/ CreateClient(g)
        \/ \E heard \in BOOLEAN : ReleaseLock(g, heard)
        \/ ResumeAcquire(g)
        \/ ReturnClient(g)

GetterSpec == GetterInit /\ [][GetterNext]_allvars

-----------------------------------------------------------------------------
(* The normalizer on its own: every judge text of the bound goes through   *)
(* it                                                                      *)

NormalizeText ==
    /\ decision = NoDecision
    /\ decision' = Normalize(model_text)
    /\ UNCHANGED <<model_text, vars, cvars, gvars>>

NormInit ==
    /\ TablesInit(SessionIds)
    /\ ClientIdle
    /\ base_url = JudgeUrl
    /\ model_text \in ModelTexts
    /\ decision = NoDecision

NormNext == NormalizeText

NormSpec == NormInit /\ [][NormNext]_allvars

-----------------------------------------------------------------------------
(* Properties                                                              *)

ScoresOf(s) == {i \in DOMAIN scores : scores[i].session = s}

\* Worker r holds a built response to a /play request that returned a verdict
MoveAnswered(r) ==
    pc[r] = "commit" /\ resp[r].status = 200 /\ resp[r].body = "move"

MoveWon(r) == MoveAnswered(r) /\ resp[r].accepted
MoveLost(r) == MoveAnswered(r) /\ ~resp[r].accepted

\* Worker r holds a built response of end-session
EndAnswered(r) ==
    pc[r] = "commit" /\ resp[r].status = 200 /\ resp[r].body = "end"

\* C1 (freeze invariant): a step that creates chain entries creates them only
\* for a session that is new or whose active flag is true before the step; the
\* chain of a session whose flag is false does not change.
C1_Freeze ==
    [][\A e \in entries' \ entries :
            e.session \in DOMAIN sessions => sessions[e.session].active]_vars

\* C1 witness: a /play request on an ended session that holds a chain has been
\* turned away.
C1_Witness ==
    \E r \in Reqs :
        /\ pc[r] = "commit"
        /\ resp[r].error = "session already ended"
        /\ ~sessions[local[r].session.id].active
        /\ ChainCount(local[r].session.id) >= 2

\* C2 as stated: on a losing verdict of the judge the losing move is not
\* appended, and the final score, returned and stored, is the chain length
\* before the move.
C2_Original ==
    \A r \in Reqs :
        (MoveLost(r) /\ ~IsAIError(local[r].ai_response)) =>
            LET sid == resp[r].session_id
            IN  /\ ChainCount(sid) = local[r].last_pos
                /\ resp[r].score = local[r].last_pos
                /\ \A i \in ScoresOf(sid) : scores[i].points = local[r].last_pos

\* C2 amended: on a losing verdict the losing move is appended at the next
\* position, and the final score, returned and stored in the Score row, is the
\* chain length with that move: the length before the move plus one.
C2_Amended ==
    \A r \in Reqs :
        MoveLost(r) =>
            LET sid == resp[r].session_id
                before == local[r].last_pos
            IN  /\ [session |-> sid, position |-> before + 1,
                    value |-> local[r].move] \in entries
                /\ ChainCount(sid) = before + 1
                /\ resp[r].score = before + 1
                /\ resp[r].score >= 0
                /\ ScoresOf(sid) # {}
                /\ \A i \in ScoresOf(sid) : scores[i].points = before + 1

\* C2 witness: a session with chain length 2 drew a losing verdict and has a
\* Score row of 3 points.
C2_Witness ==
    \E r \in Reqs :
        /\ MoveLost(r)
        /\ ~IsAIError(local[r].ai_response)
        /\ local[r].last_pos = 2
        /\ \E i \in ScoresOf(resp[r].session_id) : scores[i].points = 3

\* C3 as stated: a failure of the decision client during submit-move never
\* sets active=false and never writes a Score row.
C3_Claim ==
    \A r \in Reqs :
        (pc[r] = "commit" /\ IsAIError(local[r].ai_response)) =>
            /\ sessions[local[r].session.id].active
            /\ ScoresOf(local[r].session.id) = {}

\* C4 as stated: with the judge unavailable (circuit open, retries exhausted)
\* submit-move answers 503 'AI service unavailable'.
C4_Claim ==
    \A r \in Reqs :
        (pc[r] = "commit"
            /\ local[r].ai_response.message \in {CircuitOpenMsg, UnreachableMsg}) =>
            /\ resp[r].status = 503
            /\ resp[r].error = "AI service unavailable"

\* C5 as stated: a move that is not one of the three canonical tokens never
\* reaches the decision client, and every stored chain entry value is one of
\* the three tokens.
C5_Claim ==
    /\ \A r \in Reqs : pc[r] = "m_ai" => local[r].move \in CanonicalMoves
    /\ \A e \in entries : e.value \in CanonicalMoves

\* C6: for every session, ended_at is non-null iff active is false.
C6_EndedAtIffInactive ==
    \A s \in DOMAIN sessions :
        (sessions[s].ended_at # NULL) <=> ~sessions[s].active

\* C6 witness: end-session has just ended a session that was active.
C6_Witness ==
    \E r \in Reqs :
        /\ EndAnswered(r)
        /\ delivered[resp[r].session_id] = {}
        /\ ~sessions[resp[r].session_id].active
        /\ sessions[resp[r].session_id].ended_at # NULL

\* C7 (Ended is terminal): a session whose active flag is false keeps it false,
\* an ended_at that is set never changes, and no chain entry is added to or
\* removed from a session whose active flag is false.
C7_EndedTerminal ==
    [][\A s \in DOMAIN sessions :
            /\ ~sessions[s].active => ~sessions'[s].active
            /\ sessions[s].ended_at # NULL =>
                    sessions'[s].ended_at = sessions[s].ended_at
            /\ ~sessions[s].active => {e \in entries' : e.session = s} = ChainOf(s)]_vars

\* C7 witness: a session whose final score has been reported has turned a
\* /play request away and is still ended.
C7_Witness ==
    \E q \in Reqs :
        /\ pc[q] = "commit"
        /\ resp[q].error = "session already ended"
        /\ delivered[local[q].session.id] # {}
        /\ ~sessions[local[q].session.id].active
        /\ sessions[local[q].session.id].ended_at # NULL

\* C8 (terminal idempotence): all the final scores reported for a session, by
\* end-session responses and by the losing response, are the same; end-session
\* on a session of the caller always answers 200; and a session that has
\* reported a final score has exactly one Score row.
C8_EndIdempotent ==
    /\ \A s \in DOMAIN delivered :
        LET built == UNION {Reports(resp[r]) :
                                r \in {q \in Reqs : resp[q].session_id = s}}
        IN  /\ Cardinality(delivered[s] \cup built) <= 1
            /\ delivered[s] \cup built # {} => Cardinality(ScoresOf(s)) = 1
    /\ \A r \in Reqs :
        (pc[r] = "commit" /\ resp[r].body = "end") => resp[r].status = 200

\* C8 witness: end-session answers for a session whose final score was
\* reported before.
C8_Witness ==
    \E r \in Reqs :
        /\ EndAnswered(r)
        /\ delivered[resp[r].session_id] = {resp[r].final_score}
        /\ resp[r].final_score >= 2

\* C9: on a losing verdict the session is Ended (active false, ended_at set)
\* and has exactly one Score row, whose points are the score of the response.
C9_LossFinalizes ==
    \A r \in Reqs :
        MoveLost(r) =>
            LET sid == resp[r].session_id
            IN  /\ ~sessions[sid].active
                /\ sessions[sid].ended_at # NULL
                /\ Cardinality(ScoresOf(sid)) = 1
                /\ \A i \in ScoresOf(sid) :
                        /\ scores[i].points = resp[r].score
                        /\ scores[i].user = local[r].user

\* C9 witness: a losing response on a session that existed before the request.
C9_Witness ==
    \E r \in Reqs :
        /\ MoveLost(r)
        /\ ~IsAIError(local[r].ai_response)
        /\ local[r].last_pos >= 2

C8_Claim ==
    \A r \in Reqs :
        LET s == local[r].session_id
        IN  (/\ pc[r] \in {"commit", "respond"}
             /\ local[r].view = "end"
             /\ s \in DOMAIN sessions
             /\ sessions[s].user = local[r].user
             /\ sessions[s].tx = 0) =>
                /\ resp[r].status = 200
                /\ delivered[s] \subseteq {resp[r].final_score}
                /\ Cardinality(ScoresOf(s)) = 1

\* The positions of the chain of session s
Positions(rows, s) == {e.position : e \in {x \in rows : x.session = s}}

C12_ChainMonotonic ==
    [][/\ \A s \in DOMAIN sessions' :
            LET chain == {e \in entries' : e.session = s}
            IN  /\ Positions(entries', s) = 1..Cardinality(chain)
                /\ \A e1, e2 \in chain : e1.position = e2.position => e1 = e2
       /\ \A r \in Reqs :
            (pc[r] = "m_ai" /\ pc'[r] = "commit" /\ resp'[r].status = 200
                /\ resp'[r].accepted) =>
                Cardinality({e \in entries' : e.session = resp'[r].session_id})
                    = ChainCount(resp'[r].session_id) + 1]_vars

\* C12 witness: the chain of a session has grown to positions 1..4 by accepted
\* moves, the last one still in hand.
C12_Witness ==
    \E r \in Reqs :
        /\ MoveWon(r)
        /\ local[r].last_pos = 3
        /\ Positions(entries, resp[r].session_id) = 1..4
        /\ sessions[resp[r].session_id].tx = 0

\* C13 as stated: an end-session request on an active session of the caller
\* sets active=false and ended_at, writes one Score row whose points are the
\* chain length, and returns that chain length as the final score.
C13_Claim ==
    [][\A r \in Reqs :
        LET s == local'[r].session_id
        IN  (/\ pc[r] = "idle"
             /\ local'[r].view = "end"
             /\ s \in DOMAIN sessions
             /\ sessions[s].user = local'[r].user
             /\ sessions[s].tx = 0
             /\ sessions[s].active) =>
                /\ resp'[r].status = 200
                /\ resp'[r].final_score = ChainCount(s)
                /\ ~sessions'[s].active
                /\ sessions'[s].ended_at # NULL
                /\ \E i \in DOMAIN scores' :
                        /\ scores'[i].session = s
                        /\ scores'[i].points = ChainCount(s)
                        /\ \A j \in DOMAIN scores' :
                                scores'[j].session = s => j = i]_vars

NamesNoSessionOfCaller(r) ==
    /\ pc[r] = "idle"
    /\ local'[r].view \in {"play", "end"}
    /\ local'[r].session_id > 0
    /\ ~SessionFound(r, local'[r].session_id, local'[r].user)

\* C15 as stated: a submit-move or end-session request that names a session id
\* which does not exist or belongs to another user is answered not-found,
\* does not reach the decision client and changes no session, chain entry or
\* score.
C15_Claim ==
    [][\A r \in Reqs :
        NamesNoSessionOfCaller(r) =>
            /\ resp'[r].status = 404
            /\ pc'[r] # "m_ai"
            /\ sessions' = sessions
            /\ entries' = entries
            /\ scores' = scores]_vars

\* C16: a submit-move request on a session of the caller that has ended is
\* answered 400, is not passed to the decision client and, up to its response,
\* changes no session, chain entry or score.
C16_EndedMoveRejected ==
    [][\A r \in Reqs :
        /\ LET s == local'[r].session_id
           IN  (/\ pc[r] = "idle"
                /\ local'[r].view = "play"
                /\ SessionFound(r, s, local'[r].user)
                /\ ~sessions[s].active) =>
                    /\ resp'[r] = ErrorResponse(400, "session already ended")
                    /\ pc'[r] = "commit"
                    /\ sessions' = sessions
                    /\ entries' = entries
                    /\ scores' = scores
                    /\ wins' = wins
        /\ (pc[r] = "commit" /\ resp[r].error = "session already ended"
                /\ pc'[r] # "commit") =>
                    /\ pc'[r] = "idle"
                    /\ sessions' = sessions
                    /\ entries' = entries
                    /\ scores' = scores]_vars

\* C16 witness: a submit-move request on a session that an end-session request
\* ended, with a chain of 3, has been turned away.
C16_Witness ==
    \E r \in Reqs :
        /\ pc[r] = "commit"
        /\ local[r].view = "play"
        /\ resp[r].status = 400
        /\ resp[r].error = "session already ended"
        /\ ChainCount(local[r].session_id) = 3
        /\ \E i \in ScoresOf(local[r].session_id) : scores[i].points = 3

\* Worker r is in the read-check-mutate section of session s
InSection(r, s) == pc[r] \in {"m_ai", "commit"} /\ local[r].session.id = s

\* C17 (session mutual exclusion): at most one request is inside the section
\* of a session, and an end-session or submit-move request on a committed
\* session that no request is inside can take its step, whatever other
\* sessions are held.
C17_MutualExclusion ==
    /\ \A s \in DOMAIN lock :
        Cardinality({r \in Reqs : InSection(r, s)}) <= 1
    /\ \A r \in Reqs, s \in DOMAIN sessions :
        (/\ pc[r] = "idle"
         /\ sessions[s].tx = 0
         /\ \A q \in Reqs : ~InSection(q, s)) =>
            /\ ENABLED EndSessionRequest(r, sessions[s].user, <<"str", s>>)
            /\ (sessions[s].active => ChainCount(s) < MaxChain) =>
                    ENABLED MoveOnSessionRequest(r, sessions[s].user, "banana", s)

\* C17 witness: two requests are inside the sections of two sessions at the
\* same time, both waiting for the judge.
C17_Witness ==
    \E r, q \in Reqs :
        /\ r # q
        /\ InSection(r, 1) /\ pc[r] = "m_ai"
        /\ InSection(q, 2) /\ pc[q] = "m_ai"
        /\ sessions[1].tx = 0
        /\ sessions[2].tx = 0

-----------------------------------------------------------------------------
(* Properties of the decision client                                       *)

\* Call c returned a verdict of the judge
ReturnedVerdict(cl) ==
    cl.pc = "returned" /\ cl.result.message \notin AIErrorMessages

\* C18 (breaker trip): a call that starts while the failure counter is at or
\* over the threshold and the time since the last failure does not exceed the
\* cooldown returns the circuit-open error at once, with no client.post and no
\* change of the counter; a call that starts after the cooldown has elapsed
\* sets the counter to 0 and goes on to its first client.post.
C18_BreakerTrip ==
    [][\A c \in Calls :
        (call[c].pc = "idle" /\ call'[c].pc # "idle"
            /\ failure_count >= CIRCUIT_THRESHOLD) =>
            IF mono - last_failure <= CIRCUIT_COOLDOWN
            THEN /\ call'[c].pc = "returned"
                 /\ call'[c].result = [result |-> FALSE, message |-> CircuitOpenMsg]
                 /\ call'[c].posts = 0
                 /\ failure_count' = failure_count
            ELSE /\ failure_count' = 0
                 /\ call'[c].pc = "post"
                 /\ call'[c].attempt = 1]_cvars

\* C18 witness: a call was failed fast exactly one cooldown after the last
\* recorded failure, the counter over the threshold.
C18_Witness ==
    \E c \in Calls :
        /\ call[c].pc = "returned"
        /\ call[c].result.message = CircuitOpenMsg
        /\ call[c].posts = 0
        /\ failure_count >= CIRCUIT_THRESHOLD
        /\ mono - last_failure = CIRCUIT_COOLDOWN

\* C19: the step in which a call gets a 2xx response sets the failure counter
\* to 0 whatever it was: it is 0 after the step if a verdict is returned, and 1
\* (the reset, then the one failure recorded for the body) if the body is
\* unusable.
C19_SuccessResets ==
    [][\A c \in Calls :
        (call[c].pc = "post" /\ call'[c].pc = "returned") =>
            /\ ReturnedVerdict(call'[c]) => failure_count' = 0
            /\ call'[c].result.message = InvalidResponseMsg =>
                    failure_count' = 1]_cvars

\* C19 witness: a call returned a verdict on its third attempt, after two
\* failures it recorded itself, and the counter is 0.
C19_Witness ==
    \E c \in Calls :
        /\ ReturnedVerdict(call[c])
        /\ call[c].attempt = 3
        /\ call[c].posts = 3
        /\ failure_count = 0
        /\ last_failure > 0

\* C20 as stated: a call makes at most AI_RETRY_ATTEMPTS client.post calls,
\* returns the unreachable error only after exactly that many, and every call
\* that has started ends.
C20_Claim ==
    /\ [](\A c \in Calls :
            /\ call[c].posts <= AI_RETRY_ATTEMPTS
            /\ (call[c].pc = "returned"
                    /\ call[c].result.message = UnreachableMsg) =>
                        call[c].posts = AI_RETRY_ATTEMPTS)
    /\ \A c \in Calls :
            (call[c].pc \in {"post", "sleep"})
                ~> (call[c].pc \in {"returned", "raised"})

\* A 4xx answer other than 429, and a 2xx answer whose payload is malformed
ClientErrors == {o \in HttpErrors : o.status >= 400 /\ o.status < 500 /\ o.status # 429}
Malformed2xx == {o \in Http2xx : o.body.wrapper # "object"}

\* The outcomes after which the loop goes on
Retryable ==
    {o \in HttpErrors : o.status = 429 \/ (o.status >= 500 /\ o.status < 600)}
        \cup Exceptions

\* C27: an HTTP 4xx response other than 429 is not retried: the call records
\* exactly one failure, makes no further attempt, does not sleep, and returns
\* at once an error that carries the status code.
C27_ClientErrorFinal ==
    [][\A c \in Calls : \A o \in ClientErrors :
        AttemptMeets(c, o) =>
            /\ failure_count' = failure_count + 1
            /\ last_failure' = mono
            /\ call'[c].pc = "returned"
            /\ call'[c].posts = call[c].posts + 1
            /\ call'[c].wait = 0
            /\ call'[c].result = [result |-> FALSE, message |-> HttpErrorMsg]
            /\ call'[c].status = o.status]_cvars

\* C27 witness: a call has returned "AI HTTP error: 404" after its second
\* attempt (the first one was retried), with two failures counted.
C27_Witness ==
    \E c \in Calls :
        /\ call[c].pc = "returned"
        /\ call[c].result.message = HttpErrorMsg
        /\ call[c].status = 404
        /\ call[c].attempt = 2
        /\ call[c].posts = 2
        /\ failure_count = 2

\* C28: a malformed or unparseable payload of a 2xx response is not retried:
\* the call records a failure, makes no further attempt, and returns the
\* invalid-response error, never a verdict.
C28_Claim ==
    [][\A c \in Calls : \A o \in Malformed2xx :
        AttemptMeets(c, o) =>
            /\ failure_count' >= 1
            /\ last_failure' = mono
            /\ call'[c].pc = "returned"
            /\ call'[c].result = [result |-> FALSE, message |-> InvalidResponseMsg]]_cvars

\* C29: a retried attempt records exactly one failure in the step that
\* enters the sleep; the breaker is consulted at the start of the call only:
\* a call in its loop never returns the circuit-open error, the end of a
\* sleep leads to the next attempt (to the unreachable error after the last
\* one) whatever the counter says, and neither the end of a finite sleep nor
\* the attempt that follows it waits for the breaker.
C29_RecordBeforeSleep ==
    /\ [][\A c \in Calls :
            /\ \A o \in Retryable :
                AttemptMeets(c, o) =>
                    /\ failure_count' = failure_count + 1
                    /\ last_failure' = mono
                    /\ call'[c].pc \in {"sleep", "raised"}
            /\ call[c].pc \in {"post", "sleep"} =>
                ~(call'[c].pc = "returned"
                    /\ call'[c].result.message = CircuitOpenMsg)
            /\ (call[c].pc = "sleep" /\ call'[c].pc # "sleep") =>
                IF call[c].attempt < AI_RETRY_ATTEMPTS
                THEN call'[c].pc = "post" /\ call'[c].attempt = call[c].attempt + 1
                ELSE /\ call'[c].pc = "returned"
                     /\ call'[c].result.message = UnreachableMsg]_cvars
    /\ [](\A c \in Calls :
            /\ (call[c].pc = "sleep" /\ call[c].wait # INF) => ENABLED Wake(c)
            /\ call[c].pc = "post" => ENABLED Attempt(c))

\* C29 witness: the counter is at the threshold, the breaker would refuse a
\* new call, and a running call is at its third attempt.
C29_Witness ==
    \E c \in Calls :
        /\ failure_count >= CIRCUIT_THRESHOLD
        /\ IsCircuitOpen(failure_count, mono, last_failure)
        /\ call[c].pc = "post"
        /\ call[c].attempt = 3
        /\ call[c].posts = 2

\* C30: no fault of the transport leaves the call as an exception: whatever
\* the attempts meet, the call ends by returning a verdict or a result False
\* with one of the client's error messages.
C30_Claim ==
    \A c \in Calls :
        /\ call[c].pc # "raised"
        /\ call[c].pc = "returned" =>
            \/ call[c].result.message = "explanation"
            \/ /\ ~call[c].result.result
               /\ call[c].result.message \in AIErrorMessages

-----------------------------------------------------------------------------
(* Leaderboard                                                             *)

\* The users that have a Score row, and a user's best score
Scorers(rows) == {rows[i].user : i \in DOMAIN rows}
BestOf(rows, u) == Max({rows[i].points : i \in {j \in DOMAIN rows : rows[j].user = u}})

\* The limit a leaderboard request asks for (views.py:178: default=10)
LimitOf(r) == IF local[r].limit = 0 THEN 10 ELSE local[r].limit

\* The user's natural ordering: the order of the primary keys
UserOrder(u) == IF u = "alice" THEN 1 ELSE 2

\* board is the ranking of the stored scores cut at limit: one entry per
\* scorer, each with the scorer's best score, in descending order of it, rank
\* i on entry i, and no scorer left out has more than one that is listed
IsRanking(board, rows, limit) ==
    /\ Len(board) = Min(limit, Cardinality(Scorers(rows)))
    /\ \A i \in DOMAIN board :
        /\ board[i].rank = i
        /\ board[i].username \in Scorers(rows)
        /\ board[i].best_score = BestOf(rows, board[i].username)
    /\ \A i, j \in DOMAIN board :
        i < j => /\ board[i].username # board[j].username
                 /\ board[i].best_score >= board[j].best_score
    /\ \A u \in Scorers(rows) :
        (\A i \in DOMAIN board : board[i].username # u)
            => \A i \in DOMAIN board : board[i].best_score >= BestOf(rows, u)

TopAnswered(r) == pc[r] = "respond" /\ local[r].view = "top"

\* C21: a leaderboard-top request is answered with the ranking of the stored
\* scores: for the users having a Score row, each user's max(points), in
\* descending order, truncated to the limit, rank i on the i-th entry.
C21_Claim ==
    \A r \in Reqs :
        TopAnswered(r) =>
            /\ resp[r].status = 200
            /\ IsRanking(resp[r].board, scores, LimitOf(r))

\* C22: leaderboard reads are deterministic: users with equal best score
\* are listed in the user's natural order, and two reads of the same stored
\* scores return the same ranked list.
C22_Claim ==
    \A r, q \in Reqs :
        TopAnswered(r) /\ TopAnswered(q) /\ local[r].limit = local[q].limit =>
            /\ resp[r].status = 200
            /\ resp[q].status = 200
            /\ resp[r].board = resp[q].board
            /\ \A i, j \in DOMAIN resp[r].board :
                (i < j /\ resp[r].board[i].best_score = resp[r].board[j].best_score)
                    => UserOrder(resp[r].board[i].username)
                        < UserOrder(resp[r].board[j].username)

-----------------------------------------------------------------------------
(* The normalizer                                                          *)

Normalized == decision # NoDecision

\* t is "<token>", or "<token> <separator> <explanation>" with an
\* explanation of one line (blanks around the separator are free)
DialectB(t) ==
    /\ t # <<>>
    /\ Lower(t[1]) \in BoolTokens
    /\ \/ Len(t) = 1
       \/ \E k \in 2..Len(t), j \in 3..Len(t) :
            /\ k < j
            /\ \A i \in 2..(k - 1) : t[i] \in Whitespace
            /\ t[k] \in Separators
            /\ \A i \in (k + 1)..(j - 1) : t[i] \in Whitespace
            /\ t[j] \notin Whitespace
            /\ \A i \in j..Len(t) : t[i] # "\n"

\* The text is "<t> <sep> <explanation>", single blanks around the separator
TokenSepExplanation(t) ==
    /\ Len(t) >= 5
    /\ Lower(t[1]) \in BoolTokens
    /\ t[2] = " "
    /\ t[3] \in Separators
    /\ t[4] = " "
    /\ t[5] \notin Whitespace
    /\ t[Len(t)] \notin Whitespace

\* C23: Dialect B: "<t> <sep> <explanation>", t a boolean token in any
\* case and sep one of "-", ":", normalizes to won = (t is true, yes or 1)
\* with the explanation as message; the token alone normalizes to the same
\* won value with an empty message.
C23_Claim ==
    Normalized =>
        /\ TokenSepExplanation(model_text) =>
            /\ decision.result = (Lower(model_text[1]) \in TrueTokens)
            /\ decision.message = SubSeq(model_text, 5, Len(model_text))
        /\ (Len(model_text) = 1 /\ Lower(model_text[1]) \in BoolTokens) =>
            /\ decision.result = (Lower(model_text[1]) \in TrueTokens)
            /\ decision.message = <<>>

\* C24: Dialect A: an object whose result field is win, lose, tie or error
\* normalizes to that verdict (a lose, a tie or an error is never reported as
\* a win), and a result outside the enum is a parse failure, not a verdict.
C24_Claim ==
    Normalized =>
        /\ model_text = <<"{result: win}">> => decision.result
        /\ model_text \in {<<"{result: lose}">>, <<"{result: tie}">>,
                           <<"{result: error}">>} => ~decision.result
        /\ model_text = <<"{result: draw}">> => decision.via = "invalid"

\* The object's result field is a boolean or a string holding one boolean
\* token, and it has no results field
BooleanResult(o) ==
    /\ o.results.type = "absent"
    /\ \/ o.result.type = "bool"
       \/ /\ o.result.type = "str"
          /\ Len(o.result.text) = 1
          /\ Lower(o.result.text[1]) \in BoolTokens

\* C25: when the judge's object carries a result field that is a boolean or
\* a string holding a boolean token, possibly next to a message or
\* explanation field, won is that boolean's or token's truth value and the
\* message is the message/explanation field.
C25_Claim ==
    \A o \in DOMAIN JsonObjects :
        (Normalized /\ model_text = <<o>> /\ BooleanResult(JsonObjects[o])) =>
            /\ decision.result =
                (IF JsonObjects[o].result.type = "bool"
                 THEN JsonObjects[o].result.bool
                 ELSE Lower(JsonObjects[o].result.text[1]) \in TrueTokens)
            /\ decision.message =
                (IF JsonObjects[o].message.type = "str"
                 THEN JsonObjects[o].message.text
                 ELSE JsonObjects[o].explanation.text)

\* The object gives a verdict under one of the parses of the normalizer
GivesVerdict(o) ==
    \/ o.results.type = "str" /\ DialectB(Strip(o.results.text))
    \/ o.result.type = "bool"
    \/ o.result.type = "str" /\ DialectB(Strip(o.result.text \o <<" ", "-", " ">>))
    \/ \E k \in {"results", "result", "message", "explanation", "other"} :
        /\ \A h \in {"results", "result", "message", "explanation", "other"} :
            h # k => o[h].type = "absent"
        /\ o[k].type = "str"
        /\ DialectB(Strip(o[k].text))

HasBraces(t) == \E i \in DOMAIN t : t[i] \in BraceLexemes

-----------------------------------------------------------------------------
(* GameSession.end_session                                                 *)

\* C34: end_session records a Score at most once per session: a call on a
\* session that is already ended returns None and changes nothing, also when
\* the caller loaded the session while it was active and another caller has
\* ended it since; so no session ever has two Score rows.
C34_Claim ==
    /\ \A s \in DOMAIN sessions : Cardinality(ScoresOf(s)) <= 1
    /\ \A r \in Reqs :
        (pc[r] = "e_saved" /\ local[r].record_score) =>
            ScoresOf(local[r].session.id) = {}

-----------------------------------------------------------------------------
(* The best score of a response                                            *)

\* The final score and the best score of a response that reports both
ReportsBest(rsp) ==
    rsp.status = 200 /\ (rsp.body = "end" \/ (rsp.body = "move" /\ ~rsp.accepted))
FinalOf(rsp) == IF rsp.body = "end" THEN rsp.final_score ELSE rsp.score

\* The points of the Score rows of user u that exist for worker r's
\* transaction: the committed ones and its own
PointsOf(rows, r, u) ==
    {rows[i].points : i \in {j \in DOMAIN rows :
                                rows[j].user = u /\ rows[j].tx \in {0, r}}}

\* C36: when a handler builds a response that reports a final score and a
\* best score (the losing submit-move response, the end-session response),
\* best_score is the greatest points value among the Score rows of the calling
\* user, the one just written included, and is at least the final score of
\* the same response.
C36_BestScore ==
    [][\A r \in Reqs :
        (pc[r] # "commit" /\ pc'[r] = "commit" /\ ReportsBest(resp'[r])) =>
            LET pts == PointsOf(scores', r, local'[r].user)
            IN  /\ pts # {}
                /\ resp'[r].best_score \in pts
                /\ \A p \in pts : p <= resp'[r].best_score
                /\ resp'[r].best_score >= FinalOf(resp'[r])
      ]_allvars

\* C36 witness: a losing submit-move response whose best score, from an
\* earlier session of the user, is above its own final score
C36_Witness ==
    \E r \in Reqs :
        /\ pc[r] = "commit"
        /\ ReportsBest(resp[r])
        /\ resp[r].body = "move"
        /\ resp[r].best_score > resp[r].score
        /\ \E i \in DOMAIN scores :
            /\ scores[i].user = local[r].user
            /\ scores[i].session # resp[r].session_id
            /\ scores[i].points = resp[r].best_score

-----------------------------------------------------------------------------
(* The row lock of a submit-move request                                   *)

\* C35: a submit-move request that holds its session's row lock eventually
\* responds and releases it (its judge call ends within the retry budget), so
\* that a request waiting for the same session can go on.
C35_Claim ==
    \A r \in Reqs : \A s \in SessionIds :
        (lock[s] = r /\ local[r].view = "play") ~> (lock[s] # r)

-----------------------------------------------------------------------------
(* Error responses of submit-move                                          *)

\* The rows that worker r's open transaction has written
WrittenBy(r) ==
    [sessions |-> {i \in DOMAIN sessions : sessions[i].tx = r},
     entries |-> {e \in entries : sessions[e.session].tx = r},
     scores |-> {i \in DOMAIN scores : scores[i].tx = r}]

\* C33: a submit-move request that is answered with an error (400, 404, 502)
\* leaves the stored sessions, chain entries and scores as they were before
\* it, also when it carried no session id: when its response goes out, no row
\* written by the request is stored, and none is made visible by its end.
C33_Claim ==
    [][\A r \in Reqs :
        ((Commit(r) \/ Respond(r))
            /\ local[r].view = "play" /\ resp[r].status >= 400) =>
        /\ WrittenBy(r) = [sessions |-> {}, entries |-> {}, scores |-> {}]
        /\ entries' = entries
        /\ Len(sessions') = Len(sessions)
        /\ Len(scores') = Len(scores)
      ]_allvars

-----------------------------------------------------------------------------
(* The wait after HTTP 429                                                 *)

\* The Retry-After headers that are a number, and their value in ms
NumericRetryAfter == {"2", "inf"}
RetryAfterMillis(h) == IF h = "2" THEN 2000 ELSE INF

\* C32: when an attempt is answered 429 and the call goes to sleep, the wait
\* is the Retry-After value if the header is a number, else the backoff
\* 2^attempt capped at 30 s, plus a jitter of at least zero (and at most half
\* a second): it is never below the Retry-After value or the capped backoff.
C32_WaitAtLeast ==
    [][\A c \in Calls : \A o \in HttpErrors :
        (o.status = 429 /\ AttemptMeets(c, o) /\ call'[c].pc = "sleep") =>
            LET w == call'[c].wait
                backoff == IF 2 ^ call[c].attempt <= 30
                           THEN 1000 * 2 ^ call[c].attempt ELSE 30000
            IN  IF o.retry_after \in NumericRetryAfter
                THEN IF RetryAfterMillis(o.retry_after) = INF THEN w = INF
                     ELSE /\ w >= RetryAfterMillis(o.retry_after)
                          /\ w <= RetryAfterMillis(o.retry_after) + 500
                ELSE w >= backoff /\ w <= backoff + 500
      ]_allvars

\* C32 witness: one call sleeps the capped backoff plus jitter after a 429 at
\* its sixth attempt, another the Retry-After value of 2 s plus jitter
C32_Witness ==
    /\ call[1].pc = "sleep" /\ call[1].attempt = 6 /\ call[1].wait = 30500
    /\ call[2].pc = "sleep" /\ call[2].wait = 2500

-----------------------------------------------------------------------------
(* Properties of get_shared_client                                         *)

\* At most one client is ever constructed, and a caller that returned holds it
SingleInstance ==
    /\ Cardinality(made) <= 1
    /\ \A g \in Getters :
        getter[g].pc = "done" => (client # None /\ getter[g].got = client)

\* C31: when several callers invoke get_shared_client while no client exists,
\* exactly one client is constructed and every caller receives that instance:
\* no caller's call ends in an exception, and no caller is left waiting on the
\* guard for good
C31_Claim ==
    /\ SingleInstance
    /\ \A g \in Getters : getter[g].pc \notin {"raised", "lost"}

====
